---------------------------- MODULE Spec2Model ----------------------------
(***************************************************************************)
(* Model of networks/acnetwork_seperated.py: the actor (policy) and critic *)
(* (value) networks of the pysc2 agent.                                    *)
(*                                                                         *)
(* Tensors are modelled by their shape (a sequence of dimension sizes) and *)
(* by the layout of their channel axis; the categorical head's values are  *)
(* modelled exactly, as rationals with the IEEE special values a division  *)
(* by zero produces.  Module objects (nn.Sequential, nn.Conv2d, ...) are   *)
(* modelled by their identity and the value of their parameter storage.    *)
(***************************************************************************)
EXTENDS Integers, Sequences, FiniteSets, TLC

VARIABLES
    params,      \* parameter storage: module identity -> current value
    nets,        \* the constructed networks, in construction order
    actorCall,   \* the last ActorNet.forward call: inputs, locals, outcome
    criticCall,  \* the last CriticNet.forward call: inputs, locals, outcome
    shapeCall,   \* the last _conv_output_shape call: arguments and result
    encCall      \* the last call of a two-stage spatial encoder

vars == <<params, nets, actorCall, criticCall, shapeCall, encCall>>

---------------------------------------------------------------------------
(* Architecture constants and model bounds *)

minimap_channels == 7
screen_channels == 17

\* arglist.NUM_ACTIONS and arglist.FEAT2DSIZE: configuration values, scaled down
NUM_ACTIONS == 2
FEAT2DSIZE == 2

\* largest batch size of a forward call
MaxBatch == 3
\* largest height/width handed to the shape formula and the encoders
MaxHW == 4
\* largest number of networks constructed
MaxNets == 2

\* raw values the categorical head's last dense layer (no activation) yields
RawVals == {-1, 0, 1, 2}
\* values a weight initialisation may draw for one module's parameters
InitVals == {0, 1}

Batches == 1..MaxBatch

---------------------------------------------------------------------------
(* Sequence helpers *)

RECURSIVE SumSeq(_)
SumSeq(s) == IF s = <<>> THEN 0 ELSE Head(s) + SumSeq(Tail(s))

RECURSIVE Prod(_)
Prod(s) == IF s = <<>> THEN 1 ELSE Head(s) * Prod(Tail(s))

RECURSIVE Flat(_)
Flat(ss) == IF ss = <<>> THEN <<>> ELSE Head(ss) \o Flat(Tail(ss))

Abs(x) == IF x < 0 THEN -x ELSE x

RECURSIVE Gcd(_, _)
Gcd(a, b) == IF b = 0 THEN a ELSE Gcd(b, a % b)

---------------------------------------------------------------------------
(* Tensor shapes.  A tensor is [shape, layout]: shape is the sequence of    *)
(* dimension sizes, layout lists the channel axis as <<source, channels>>   *)
(* groups in order.  ShapeError is the value of an operation the tensor    *)
(* runtime refuses (it raises).                                             *)

ShapeError == [shape |-> <<>>, layout |-> <<>>]

Tensor(shape, source) ==
    [shape |-> shape, layout |-> <<<<source, shape[2]>>>>]

\* the convolution output-size formula, ActorNet/CriticNet._conv_output_shape
_conv_output_shape_pad_once(h_w, kernel_size, stride, pad, dilation) ==
    LET ks == IF Len(kernel_size) = 1
              THEN <<kernel_size[1], kernel_size[1]>> ELSE kernel_size
        h == ((h_w[1] + pad - (dilation * (ks[1] - 1)) - 1) \div stride) + 1
        w == ((h_w[2] + pad - (dilation * (ks[2] - 1)) - 1) \div stride) + 1
    IN  <<h, w>>

_conv_output_shape(h_w, kernel_size, stride, pad, dilation) ==
    LET ks == IF Len(kernel_size) = 1
              THEN <<kernel_size[1], kernel_size[1]>> ELSE kernel_size
        h == ((h_w[1] + (2 * pad) - (dilation * (ks[1] - 1)) - 1) \div stride) + 1
        w == ((h_w[2] + (2 * pad) - (dilation * (ks[2] - 1)) - 1) \div stride) + 1
    IN  <<h, w>>

\* nn.Conv2d(in_channels, out_channels, kernel, stride, padding) on (N, C, H, W)
Conv2d(x, name, cin, cout, kernel, stride, pad) ==
    IF x = ShapeError \/ Len(x.shape) # 4 \/ x.shape[2] # cin THEN ShapeError
    ELSE LET hw == _conv_output_shape(<<x.shape[3], x.shape[4]>>,
                                      <<kernel>>, stride, pad, 1)
         IN  IF hw[1] < 1 \/ hw[2] < 1 THEN ShapeError
             ELSE Tensor(<<x.shape[1], cout, hw[1], hw[2]>>, name)

\* nn.ReLU keeps the shape
ReLU(x) == x

\* nn.Linear(in_features, out_features) acts on the last axis
Linear(x, name, fin, fout) ==
    IF x = ShapeError \/ Len(x.shape) # 2 \/ x.shape[2] # fin THEN ShapeError
    ELSE Tensor(<<x.shape[1], fout>>, name)

\* utils.layers.Flatten: (N, C, H, W) -> (N, C*H*W)
Flatten(x) ==
    IF x = ShapeError THEN ShapeError
    ELSE Tensor(<<x.shape[1], Prod(Tail(x.shape))>>, x.layout[1][1])

\* utils.layers.Dense2Conv: (N, C) -> (N, C, FEAT2DSIZE, FEAT2DSIZE)
Dense2Conv(x) ==
    IF x = ShapeError \/ Len(x.shape) # 2 THEN ShapeError
    ELSE Tensor(<<x.shape[1], x.shape[2], FEAT2DSIZE, FEAT2DSIZE>>, x.layout[1][1])

\* torch.cat(xs, dim=1): every axis but the channel axis must agree
Cat(xs) ==
    IF \E i \in 1..Len(xs) : xs[i] = ShapeError \/ Len(xs[i].shape) # 4
    THEN ShapeError
    ELSE IF \E i \in 1..Len(xs) :
               \/ xs[i].shape[1] # xs[1].shape[1]
               \/ xs[i].shape[3] # xs[1].shape[3]
               \/ xs[i].shape[4] # xs[1].shape[4]
    THEN ShapeError
    ELSE [shape  |-> <<xs[1].shape[1],
                       SumSeq([i \in 1..Len(xs) |-> xs[i].shape[2]]),
                       xs[1].shape[3], xs[1].shape[4]>>,
          layout |-> Flat([i \in 1..Len(xs) |-> xs[i].layout])]

\* the two-stage spatial encoder: Conv2d(C, 16, 5, pad 2), ReLU, Conv2d(16, 32, 3, pad 1), ReLU
conv_minimap(x) ==
    ReLU(Conv2d(ReLU(Conv2d(x, "conv_minimap", minimap_channels, 16, 5, 1, 2)),
                "conv_minimap", 16, 32, 3, 1, 1))

conv_screen(x) ==
    ReLU(Conv2d(ReLU(Conv2d(x, "conv_screen", screen_channels, 16, 5, 1, 2)),
                "conv_screen", 16, 32, 3, 1, 1))

conv_action(x) ==
    ReLU(Conv2d(ReLU(Conv2d(x, "conv_action", 2, 16, 5, 1, 2)),
                "conv_action", 16, 32, 3, 1, 1))

\* Linear(NUM_ACTIONS, 32), ReLU, Dense2Conv
dense_nonspatial(x) ==
    Dense2Conv(ReLU(Linear(x, "dense_nonspatial", NUM_ACTIONS, 32)))

action_dense(x) ==
    Dense2Conv(ReLU(Linear(x, "action_dense", NUM_ACTIONS, 32)))

---------------------------------------------------------------------------
(* The shape formula and the encoders as operations *)

NoShapeCall == [called |-> FALSE, h_w |-> <<0, 0>>, kernel_size |-> <<0>>,
                stride |-> 0, pad |-> 0, dilation |-> 0, result |-> <<0, 0>>]

NoEncCall == [called |-> FALSE, encoder |-> "none", input |-> <<>>, output |-> <<>>]

Kernels == {<<1>>, <<3>>, <<5>>, <<3, 5>>}

\* the arguments a caller may hand to _conv_output_shape
ShapeArgs ==
    {[NoShapeCall EXCEPT !.h_w = <<h, w>>, !.kernel_size = k, !.stride = s,
                         !.pad = p, !.dilation = d] :
        h \in 1..MaxHW, w \in 1..MaxHW, k \in Kernels,
        s \in 1..2, p \in 0..2, d \in 1..2}

ConvOutputShapeCall ==
    /\ ~shapeCall.called
    /\ shapeCall' = [shapeCall EXCEPT
           !.called = TRUE,
           !.result = _conv_output_shape(shapeCall.h_w, shapeCall.kernel_size,
                          shapeCall.stride, shapeCall.pad, shapeCall.dilation)]
    /\ UNCHANGED <<params, nets, actorCall, criticCall, encCall>>

EncoderInput(e) ==
    CASE e = "conv_minimap" -> minimap_channels
      [] e = "conv_screen"  -> screen_channels
      [] e = "conv_action"  -> 2

EncoderApply(e, x) ==
    CASE e = "conv_minimap" -> conv_minimap(x)
      [] e = "conv_screen"  -> conv_screen(x)
      [] e = "conv_action"  -> conv_action(x)

\* an encoder applied to a grid of the size the shape call was asked about
EncoderCall ==
    /\ ~encCall.called
    /\ \E e \in {"conv_minimap", "conv_screen", "conv_action"}, b \in Batches :
          LET x == Tensor(<<b, EncoderInput(e), shapeCall.h_w[1], shapeCall.h_w[2]>>,
                          "input")
          IN  encCall' = [called |-> TRUE, encoder |-> e, input |-> x.shape,
                          output |-> EncoderApply(e, x).shape]
    /\ UNCHANGED <<params, nets, actorCall, criticCall, shapeCall>>

---------------------------------------------------------------------------
(* Module objects and parameter storage.  A module object is identified by *)
(* <<owner, name>>: owner 0 for the three objects built at module level    *)
(* (conv_minimap, conv_screen, dense_nonspatial), owner i for an object    *)
(* built inside the constructor of the i-th network.                        *)

Range(f) == {f[x] : x \in DOMAIN f}

GlobalModules ==
    {<<0, "conv_minimap">>, <<0, "conv_screen">>, <<0, "dense_nonspatial">>}

\* ActorNet.__init__: the attributes it assigns and the object each one names
ActorNetAttrs(i) ==
    [a \in {"minimap_conv_layers", "screen_conv_layers", "nonspatial_dense",
            "layer_hidden", "layer_action", "layer_screen1", "layer_screen2"} |->
        CASE a = "minimap_conv_layers" -> <<0, "conv_minimap">>
          [] a = "screen_conv_layers"  -> <<0, "conv_screen">>
          [] a = "nonspatial_dense"    -> <<0, "dense_nonspatial">>
          [] OTHER                     -> <<i, a>>]

\* CriticNet.__init__: the attributes it assigns and the object each one names
CriticNetAttrs(i) ==
    [a \in {"minimap_conv_layers", "screen_conv_layers", "nonspatial_dense",
            "conv_action", "action_dense", "layer_hidden", "layer_value"} |->
        CASE a = "minimap_conv_layers" -> <<0, "conv_minimap">>
          [] a = "screen_conv_layers"  -> <<0, "conv_screen">>
          [] a = "nonspatial_dense"    -> <<0, "dense_nonspatial">>
          [] OTHER                     -> <<i, a>>]

\* utils.layers.init_weights on one module: its parameters are overwritten
\* by a draw of the initialisation scheme
init_weights(store, m, v) == [store EXCEPT ![m] = v]

\* nn.Module.apply(init_weights) of a network whose submodules are ms: the
\* objects the constructor just allocated enter the store, and init_weights
\* runs on every submodule, whoever allocated it
ApplyInitWeights(store, ms, draw) ==
    [m \in DOMAIN store \cup ms |->
        IF m \in ms THEN draw[m] ELSE store[m]]

\* the parameter storage a network reads in forward
Storage(net) == Range(net.attrs)

ConstructActor ==
    /\ Len(nets) < MaxNets
    /\ LET self == [cls |-> "ActorNet", attrs |-> ActorNetAttrs(Len(nets) + 1)]
       IN  /\ \E draw \in [Storage(self) -> InitVals] :
                 params' = ApplyInitWeights(params, Storage(self), draw)
           /\ nets' = Append(nets, self)
    /\ UNCHANGED <<actorCall, criticCall, shapeCall, encCall>>

ConstructCritic ==
    /\ Len(nets) < MaxNets
    /\ LET self == [cls |-> "CriticNet", attrs |-> CriticNetAttrs(Len(nets) + 1)]
       IN  /\ \E draw \in [Storage(self) -> InitVals] :
                 params' = ApplyInitWeights(params, Storage(self), draw)
           /\ nets' = Append(nets, self)
    /\ UNCHANGED <<actorCall, criticCall, shapeCall, encCall>>

---------------------------------------------------------------------------
(* Values of the categorical output.  The raw output and the mask hold      *)
(* integers; a division yields a float, modelled as a reduced fraction or   *)
(* as the special value IEEE division gives when the divisor is zero.       *)

NaN    == [kind |-> "nan",  num |-> 0, den |-> 0]
PosInf == [kind |-> "inf",  num |-> 1, den |-> 0]
NegInf == [kind |-> "inf",  num |-> -1, den |-> 0]

Fin(n, d) ==
    LET g == Gcd(Abs(n), Abs(d))
        sgn == IF d < 0 THEN -1 ELSE 1
    IN  [kind |-> "fin", num |-> (sgn * n) \div g, den |-> (sgn * d) \div g]

\* x / y on floats holding the integers x and y
Div(x, y) ==
    IF y # 0 THEN Fin(x, y)
    ELSE IF x = 0 THEN NaN
    ELSE IF x > 0 THEN PosInf ELSE NegInf

Zero == Fin(0, 1)
One  == Fin(1, 1)

IsFinite(v) == v.kind = "fin"

\* v + w on floats
Add(v, w) ==
    IF IsFinite(v) /\ IsFinite(w)
    THEN Fin(v.num * w.den + w.num * v.den, v.den * w.den)
    ELSE IF v = NaN \/ w = NaN THEN NaN
    ELSE IF IsFinite(v) THEN w
    ELSE IF IsFinite(w) THEN v
    ELSE IF v = w THEN v ELSE NaN

RECURSIVE SumVals(_)
SumVals(s) == IF s = <<>> THEN Zero ELSE Add(Head(s), SumVals(Tail(s)))

\* tensor broadcasting of two shapes, aligned at the last axis; <<>> when the
\* runtime refuses
RECURSIVE BroadcastShape(_, _)
BroadcastShape(a, b) ==
    IF a = <<>> THEN b
    ELSE IF b = <<>> THEN a
    ELSE LET x == a[Len(a)]
             y == b[Len(b)]
             rest == BroadcastShape(SubSeq(a, 1, Len(a) - 1), SubSeq(b, 1, Len(b) - 1))
         IN  IF x # y /\ x # 1 /\ y # 1 THEN <<-1>>
             ELSE IF rest # <<>> /\ rest[1] = -1 THEN <<-1>>
             ELSE Append(rest, IF x = 1 THEN y ELSE x)

NoValue == <<>>

\* ActorNet._mask_unavailable_actions(policy, valid_actions):
\*     masked_policy_vb = policy * valid_actions
\*     masked_policy_vb /= masked_policy_vb.sum(1)
\* policy has shape (B, N), valid_actions (N,); sum(1) has shape (B,), which the
\* in-place division broadcasts along the LAST axis of masked_policy_vb
_mask_unavailable_actions(policy, valid_actions) ==
    LET B == Len(policy)
        N == Len(valid_actions)
        masked_policy_vb == [b \in 1..B |-> [j \in 1..N |-> policy[b][j] * valid_actions[j]]]
        sums == [b \in 1..B |-> SumSeq(masked_policy_vb[b])]
    IN  IF BroadcastShape(<<B, N>>, <<B>>) # <<B, N>>
        THEN [exc |-> "RuntimeError", value |-> NoValue]
        ELSE [exc |-> "none",
              value |-> [b \in 1..B |-> [j \in 1..N |->
                            Div(masked_policy_vb[b][j],
                                sums[IF B = 1 THEN 1 ELSE j])]]]

\* attribute lookup on a network object (nn.Module.__getattr__)
HasAttr(self, name) == name \in DOMAIN self.attrs

NoActorCall ==
    [called |-> FALSE, batch |-> 0, policy |-> <<>>, valid_actions |-> <<>>,
     state_h |-> <<>>, pol_categorical |-> NoValue, exc |-> "none",
     line |-> 0, ret |-> <<>>]

\* ActorNet.forward(obs, valid_actions); raw is the value the categorical
\* head (layer_action) computes from the hidden state
ActorNet_forward(self, obs, valid_actions, raw) ==
    LET m == conv_minimap(obs.minimap)
        s == conv_screen(obs.screen)
        n == dense_nonspatial(obs.nonspatial)
        state_h == ReLU(Conv2d(Cat(<<m, s, n>>), "layer_hidden", 32 * 3, 64, 3, 1, 1))
        logits == Linear(Flatten(ReLU(Conv2d(state_h, "layer_action", 64, 1, 1, 1, 0))),
                         "layer_action", FEAT2DSIZE * FEAT2DSIZE, NUM_ACTIONS)
        masked == _mask_unavailable_actions(raw, valid_actions)
        call == [called |-> TRUE, batch |-> Len(raw), policy |-> raw,
                 valid_actions |-> valid_actions, state_h |-> state_h.shape,
                 pol_categorical |-> NoValue, exc |-> "none", line |-> 0,
                 ret |-> <<>>]
    IN  IF logits = ShapeError \/ logits.shape # <<Len(raw), Len(raw[1])>>
        THEN [call EXCEPT !.exc = "RuntimeError", !.line = 67]
        ELSE IF masked.exc # "none"
        THEN [call EXCEPT !.exc = masked.exc, !.line = 68]
        ELSE IF ~HasAttr(self, "layer_screen1_x")
        THEN [call EXCEPT !.pol_categorical = masked.value,
                          !.exc = "AttributeError", !.line = 71]
        ELSE IF ~HasAttr(self, "layer_screen2_x")
        THEN [call EXCEPT !.pol_categorical = masked.value,
                          !.exc = "AttributeError", !.line = 72]
        ELSE [call EXCEPT !.pol_categorical = masked.value,
                          !.ret = <<masked.value,
                                    Conv2d(state_h, "layer_screen1_x", 64, 1, 1, 1, 0).shape,
                                    Conv2d(state_h, "layer_screen2_x", 64, 1, 1, 1, 0).shape>>]

Observation(b) ==
    [minimap    |-> Tensor(<<b, minimap_channels, FEAT2DSIZE, FEAT2DSIZE>>, "obs"),
     screen     |-> Tensor(<<b, screen_channels, FEAT2DSIZE, FEAT2DSIZE>>, "obs"),
     nonspatial |-> Tensor(<<b, NUM_ACTIONS>>, "obs")]

\* the inputs of an actor call: a batch of b observations, the raw value the
\* categorical head computes for them, and a validity mask
ActorArgs ==
    UNION {{[NoActorCall EXCEPT !.batch = b, !.policy = raw, !.valid_actions = v] :
               raw \in [1..b -> [1..NUM_ACTIONS -> RawVals]],
               v \in [1..NUM_ACTIONS -> {0, 1}]} : b \in Batches}

ActorForward ==
    /\ ~actorCall.called
    /\ \E i \in 1..Len(nets) :
          /\ nets[i].cls = "ActorNet"
          /\ actorCall' = ActorNet_forward(nets[i], Observation(actorCall.batch),
                              actorCall.valid_actions, actorCall.policy)
    /\ UNCHANGED <<params, nets, criticCall, shapeCall, encCall>>

---------------------------------------------------------------------------
(* CriticNet.forward *)

NoCriticCall ==
    [called |-> FALSE, batch |-> 0, inputs |-> <<>>, sa_layout |-> <<>>,
     sa_shape |-> <<>>, q |-> <<>>, exc |-> "none", mask_applied |-> FALSE]

\* the fusion order with the two spatial observations exchanged
CriticCatScreenFirst(m, s, n, a_spatial, a_nonspatial) ==
    Cat(<<s, m, n, a_spatial, a_nonspatial>>)

\* sa = torch.cat([m, s, n, a_spatial, a_nonspatial], dim=1)
CriticCat(m, s, n, a_spatial, a_nonspatial) ==
    Cat(<<m, s, n, a_spatial, a_nonspatial>>)

\* CriticNet.layer_hidden: Conv2d(32*5, 64, 3, pad 1), ReLU, Conv2d(64, 1, 1), ReLU, Flatten
critic_layer_hidden(x) ==
    Flatten(ReLU(Conv2d(ReLU(Conv2d(x, "layer_hidden", 32 * 5, 64, 3, 1, 1)),
                        "layer_hidden", 64, 1, 1, 1, 0)))

\* CriticNet.layer_value: Linear(FEAT2DSIZE * FEAT2DSIZE, 1)
layer_value(x) == Linear(x, "layer_value", FEAT2DSIZE * FEAT2DSIZE, 1)

CriticNet_forward(self, obs, actions) ==
    LET m == conv_minimap(obs.minimap)
        s == conv_screen(obs.screen)
        n == dense_nonspatial(obs.nonspatial)
        a_spatial == conv_action(
            IF Len(actions.screen1.shape) = 4 /\ Len(actions.screen2.shape) = 4
            THEN Cat(<<actions.screen1, actions.screen2>>) ELSE ShapeError)
        a_nonspatial == action_dense(actions.categorical)
        sa == CriticCat(m, s, n, a_spatial, a_nonspatial)
        q == layer_value(critic_layer_hidden(sa))
        call == [called |-> TRUE, batch |-> obs.minimap.shape[1],
                 inputs |-> <<obs.minimap.shape, obs.screen.shape, obs.nonspatial.shape,
                              actions.categorical.shape, actions.screen1.shape,
                              actions.screen2.shape>>,
                 sa_layout |-> sa.layout, sa_shape |-> sa.shape, q |-> q.shape,
                 exc |-> "none", mask_applied |-> FALSE]
    IN  IF \E a \in {"minimap_conv_layers", "screen_conv_layers", "nonspatial_dense",
                     "conv_action", "action_dense", "layer_hidden", "layer_value"} :
              ~HasAttr(self, a)
        THEN [call EXCEPT !.exc = "AttributeError", !.q = <<>>]
        ELSE IF q = ShapeError
        THEN [call EXCEPT !.exc = "RuntimeError"]
        ELSE call

\* the inputs of a critic call: the shapes of the three observation tensors
\* and of the three action tensors, right ones and wrong ones
CriticArgs ==
    {[NoCriticCall EXCEPT !.batch = b,
         !.inputs = <<<<b, cm, g, g>>, <<b, cs, g, g>>, <<b, ln>>,
                      <<ba, la>>, <<ba, 1, g, g>>, <<ba, 1, g, g>>>>] :
        b \in Batches, ba \in Batches,
        cm \in {minimap_channels, screen_channels},
        cs \in {minimap_channels, screen_channels},
        g \in {FEAT2DSIZE, FEAT2DSIZE + 1},
        ln \in {NUM_ACTIONS, NUM_ACTIONS + 1},
        la \in {NUM_ACTIONS, NUM_ACTIONS + 1}}

CriticForward ==
    /\ ~criticCall.called
    /\ \E i \in 1..Len(nets) :
          /\ nets[i].cls = "CriticNet"
          /\ criticCall' = CriticNet_forward(nets[i],
                 [minimap    |-> Tensor(criticCall.inputs[1], "obs"),
                  screen     |-> Tensor(criticCall.inputs[2], "obs"),
                  nonspatial |-> Tensor(criticCall.inputs[3], "obs")],
                 [categorical |-> Tensor(criticCall.inputs[4], "act"),
                  screen1     |-> Tensor(criticCall.inputs[5], "act"),
                  screen2     |-> Tensor(criticCall.inputs[6], "act")])
    /\ UNCHANGED <<params, nets, actorCall, shapeCall, encCall>>

\* inputs of a critic call that respect the architecture constants
ValidCriticInputs(b) ==
    <<<<b, minimap_channels, FEAT2DSIZE, FEAT2DSIZE>>,
      <<b, screen_channels, FEAT2DSIZE, FEAT2DSIZE>>,
      <<b, NUM_ACTIONS>>,
      <<b, NUM_ACTIONS>>,
      <<b, 1, FEAT2DSIZE, FEAT2DSIZE>>,
      <<b, 1, FEAT2DSIZE, FEAT2DSIZE>>>>

---------------------------------------------------------------------------
(* Specifications *)

NoCalls ==
    /\ actorCall = NoActorCall
    /\ criticCall = NoCriticCall
    /\ shapeCall = NoShapeCall
    /\ encCall = NoEncCall

\* after import: the three module-level objects exist, no network yet
Init ==
    /\ params \in [GlobalModules -> InitVals]
    /\ nets = <<>>
    /\ NoCalls

Next == ConstructActor \/ ConstructCritic

\* construction of networks
Spec == Init /\ [][Next]_vars

\* one ActorNet has been constructed
InitActor ==
    /\ nets = <<[cls |-> "ActorNet", attrs |-> ActorNetAttrs(1)]>>
    /\ params = [m \in GlobalModules \cup Range(ActorNetAttrs(1)) |-> 0]
    /\ actorCall \in ActorArgs
    /\ criticCall = NoCriticCall
    /\ shapeCall = NoShapeCall
    /\ encCall = NoEncCall

NextActor == ActorForward

\* forward calls on an actor
SpecActor == InitActor /\ [][NextActor]_vars

\* one CriticNet has been constructed
InitCritic ==
    /\ nets = <<[cls |-> "CriticNet", attrs |-> CriticNetAttrs(1)]>>
    /\ params = [m \in GlobalModules \cup Range(CriticNetAttrs(1)) |-> 0]
    /\ criticCall \in CriticArgs
    /\ actorCall = NoActorCall
    /\ shapeCall = NoShapeCall
    /\ encCall = NoEncCall

NextCritic == CriticForward

\* forward calls on a critic
SpecCritic == InitCritic /\ [][NextCritic]_vars

InitConv ==
    /\ params = [m \in GlobalModules |-> 0]
    /\ nets = <<>>
    /\ shapeCall \in ShapeArgs
    /\ encCall = NoEncCall
    /\ actorCall = NoActorCall
    /\ criticCall = NoCriticCall

NextConv == ConvOutputShapeCall \/ EncoderCall

\* the shape formula and the spatial encoders
SpecConv == InitConv /\ [][NextConv]_vars

---------------------------------------------------------------------------
(* Properties *)

MaskStepReturned == actorCall.called /\ actorCall.pol_categorical # NoValue

MaskNonDegenerate == \E j \in 1..NUM_ACTIONS : actorCall.valid_actions[j] # 0

IsNonNegative(v) == IsFinite(v) /\ v.num >= 0

OneHot(k) == [j \in 1..NUM_ACTIONS |-> IF j = k THEN 1 ELSE 0]

\* C1: every ActorNet.forward call on valid inputs completes without raising
\* and returns the three outputs [masked categorical, spatial map 1, spatial
\* map 2], the maps being the 1x1 heads applied to the hidden state.
ForwardReturnsThreeOutputs ==
    actorCall.called =>
        /\ actorCall.exc = "none"
        /\ Len(actorCall.ret) = 3
        /\ actorCall.ret[1] = actorCall.pol_categorical
        /\ actorCall.ret[2] = <<actorCall.batch, 1, FEAT2DSIZE, FEAT2DSIZE>>
        /\ actorCall.ret[3] = <<actorCall.batch, 1, FEAT2DSIZE, FEAT2DSIZE>>

\* C2: no two constructed networks share parameter storage; in particular the
\* minimap, screen and non-spatial encoders of one are not those of another.
NetworksOwnTheirParameters ==
    \A i, j \in 1..Len(nets) :
        i # j => Storage(nets[i]) \cap Storage(nets[j]) = {}

\* C3: with a mask that has a non-zero entry, the vector the masking step
\* produces is exactly 0 wherever the mask is 0.
MaskedEntriesExactlyZero ==
    (MaskStepReturned /\ MaskNonDegenerate) =>
        \A b \in 1..actorCall.batch, j \in 1..NUM_ACTIONS :
            actorCall.valid_actions[j] = 0 => actorCall.pol_categorical[b][j] = Zero

\* C4: with a mask that has a non-zero entry, every entry of the categorical
\* vector is non-negative and each example's entries sum to 1.
CategoricalIsDistribution ==
    (MaskStepReturned /\ MaskNonDegenerate) =>
        \A b \in 1..actorCall.batch :
            /\ \A j \in 1..NUM_ACTIONS : IsNonNegative(actorCall.pol_categorical[b][j])
            /\ SumVals(actorCall.pol_categorical[b]) = One

\* C5: an all-zero mask makes the masking step report InvalidMaskError and
\* return no vector (in particular none holding NaN or Inf).
AllZeroMaskRaises ==
    (actorCall.called /\ ~MaskNonDegenerate) =>
        /\ actorCall.exc = "InvalidMaskError"
        /\ actorCall.pol_categorical = NoValue

\* C6: with a mask that is one-hot at k, the categorical output is the one-hot
\* vector at k, whatever the raw output.
OneHotMaskGivesOneHot ==
    MaskStepReturned =>
        \A k \in 1..NUM_ACTIONS :
            actorCall.valid_actions = OneHot(k) =>
                \A b \in 1..actorCall.batch :
                    actorCall.pol_categorical[b] =
                        [j \in 1..NUM_ACTIONS |-> IF j = k THEN One ELSE Zero]

SamePadding(call) ==
    /\ call.stride = 1
    /\ call.dilation = 1
    /\ \/ call.kernel_size = <<5>> /\ call.pad = 2
       \/ call.kernel_size = <<3>> /\ call.pad = 1
       \/ call.kernel_size = <<1>> /\ call.pad = 0

\* C8: the shape formula returns (H, W) unchanged for kernel 5/pad 2, kernel
\* 3/pad 1 and kernel 1/pad 0 at stride 1, also when the first two are chained,
\* and every two-stage spatial encoder maps (N, C, H, W) to (N, 32, H, W).
SamePaddingPreservesSize ==
    /\ (shapeCall.called /\ SamePadding(shapeCall)) =>
           shapeCall.result = shapeCall.h_w
    /\ (shapeCall.called /\ SamePadding(shapeCall) /\ shapeCall.kernel_size = <<5>>) =>
           _conv_output_shape(shapeCall.result, <<3>>, 1, 1, 1) = shapeCall.h_w
    /\ encCall.called =>
           encCall.output = <<encCall.input[1], 32, encCall.input[3], encCall.input[4]>>

\* the 5x5 stage was asked about a 1 x MaxHW grid and an encoder ran on it
SamePaddingOnThinGrid ==
    /\ shapeCall.called
    /\ shapeCall.h_w = <<1, MaxHW>>
    /\ SamePadding(shapeCall)
    /\ shapeCall.kernel_size = <<5>>
    /\ shapeCall.result = <<1, MaxHW>>
    /\ encCall.called
    /\ encCall.output = <<MaxBatch, 32, 1, MaxHW>>

\* C9: constructing a network leaves every parameter of every network that
\* already exists unchanged.
ConstructionLeavesOthersUnchanged ==
    [][\A i \in 1..Len(nets) : \A m \in Storage(nets[i]) : params'[m] = params[m]]_vars

\* C10: for every batch size the masking step succeeds and every entry of
\* example b is its masked raw entry divided by the sum of example b's own
\* masked entries.
RenormalizationPerExample ==
    actorCall.called =>
        /\ actorCall.pol_categorical # NoValue
        /\ \A b \in 1..actorCall.batch, j \in 1..NUM_ACTIONS :
              actorCall.pol_categorical[b][j] =
                  Div(actorCall.policy[b][j] * actorCall.valid_actions[j],
                      SumSeq([i \in 1..NUM_ACTIONS |->
                                 actorCall.policy[b][i] * actorCall.valid_actions[i]]))

=============================================================================
